---- MODULE Spec2Model ----
(***************************************************************************)
(* A model of wav_cpp (src/main.cpp): the sine oscillator, the WAV writer  *)
(* with its sample buffer, the step-by-step execution of writeToFile on an *)
(* output stream that can fail, and main's exit code.                      *)
(*                                                                         *)
(* Conventions of the model                                                *)
(*  - A float sample is the dyadic rational num / FLOAT_DEN; its product   *)
(*    with maxAmplitude is exact in double precision (24-bit mantissa      *)
(*    times a 15-bit integer), so the quantisation is exact arithmetic.    *)
(*  - The phase angle is counted in units of 2*pi / SAMPLE_RATE, so that   *)
(*    TWO_PI is SAMPLE_RATE units and angleStep is the frequency; float    *)
(*    rounding of the phase is not modelled.                               *)
(*  - size_t and uint32_t values are pairs of 16-bit limbs [hi, lo]        *)
(*    (value hi * 65536 + lo); a uint32_t keeps hi below 65536.            *)
(*  - The buffer is bufferLead leading samples of value 0 (kept as a       *)
(*    count) followed by the explicit sequence buffer.                     *)
(*  - Multi-byte values are laid out little-endian (the x86_64 target).    *)
(*  - A stream operation either succeeds or fails as a whole; a failed      *)
(*    write adds no byte to the file.                                       *)
(*  - lastIn, writes, opens, calls, last and prev are history variables:    *)
(*    the last addSample argument, the sizes of the writes and the number   *)
(*    of streams opened by the current call, the number of calls, and the   *)
(*    buffer, outcome and file of the last two finished calls.              *)
(***************************************************************************)
EXTENDS Integers, Sequences, FiniteSets, TLC

(* ------------------------------ constants ------------------------------ *)

SAMPLE_RATE == 44100
BIT_DEPTH == 16
NUM_CHANNELS == 1
AUDIO_FORMAT == 1
FMT_CHUNK_SIZE == 16
HEADER_SIZE == 44
CHUNK_SIZE == 8192
BYTES_PER_SAMPLE == 2
RIFF_ADJUST == 8
FLOAT_DEN == 4096
LIMB == 65536
BYTE == 256

(* ------------------------------- bounds -------------------------------- *)

MaxSamples == 2
MaxCalls == 2
MaxQuantLen == 2
HeaderSpan == 24
MaxLongCalls == 1

(* --------------------------- wide arithmetic --------------------------- *)

W(n) == [hi |-> n \div LIMB, lo |-> n % LIMB]

WAdd(a, b) ==
  LET s == a.lo + b.lo IN [hi |-> a.hi + b.hi + (s \div LIMB), lo |-> s % LIMB]

WMul(a, k) ==
  LET p == a.lo * k IN [hi |-> a.hi * k + (p \div LIMB), lo |-> p % LIMB]

WLess(a, b) == a.hi < b.hi \/ (a.hi = b.hi /\ a.lo < b.lo)

WVal(a) == a.hi * LIMB + a.lo

U32(a) == [hi |-> a.hi % LIMB, lo |-> a.lo]

U32Add(a, b) == U32(WAdd(a, b))

U32Sub(a, b) ==
  LET d == a.lo - b.lo IN U32([hi |-> a.hi - b.hi + (d \div LIMB), lo |-> d % LIMB])

(* ------------------------------- state --------------------------------- *)

VARIABLES
  frequency, amplitude, angle, angleStep, sample,
  bufferLead, buffer, lastIn,
  pc, header, remaining, audioData, streamOpen, streamFailed,
  file, writes, opens,
  exitCode, stderr,
  calls, last, prev

oscVars == <<frequency, amplitude, angle, angleStep, sample>>
bufVars == <<bufferLead, buffer, lastIn>>
callVars == <<pc, header, remaining, audioData, streamOpen, streamFailed>>
envVars == <<file, writes, opens>>
mainVars == <<exitCode, stderr>>
histVars == <<calls, last, prev>>
vars == <<oscVars, bufVars, callVars, envVars, mainVars, histVars>>

\* An absent value is the empty sequence, a present one a one-element sequence.
None == <<>>

Some(x) == <<x>>

The(o) == o[1]

(* ----------------------------- oscillator ------------------------------ *)

TWO_PI == SAMPLE_RATE

AngleStepOf(freq) == (TWO_PI * freq) \div SAMPLE_RATE

WrapStrict(a) == IF a > TWO_PI THEN a - TWO_PI ELSE a

\* if (angle >= TWO_PI) angle -= TWO_PI;
Wrap(a) == IF a >= TWO_PI THEN a - TWO_PI ELSE a

Advance(a, step) == Wrap(a + step)

\* float process(): the sample is amplitude * sin(angle), kept symbolically as
\* the pair of the amplitude and the phase the sine is taken at.
process ==
  /\ sample' = Some([amp |-> amplitude, phase |-> angle])
  /\ angle' = Advance(angle, angleStep)
  /\ UNCHANGED <<frequency, amplitude, angleStep>>
  /\ UNCHANGED <<bufVars, callVars, envVars, mainVars, histVars>>

(* ---------------------------- quantisation ----------------------------- *)

maxAmplitude == 2 ^ (BIT_DEPTH - 1) - 1

INT16_MIN == -(2 ^ 15)
INT16_MAX == 2 ^ 15 - 1

FloorDiv(a, b) == a \div b

TruncDiv(a, b) == IF a >= 0 THEN a \div b ELSE -((-a) \div b)

Wrap16(t) == ((t - INT16_MIN) % LIMB) + INT16_MIN

\* static_cast<int16_t>(sample * maxAmplitude): the truncated product when an
\* int16_t can hold it; otherwise the conversion is undefined and any of the
\* listed results may come out (two's-complement wrap, 0, or a saturated value).
Quantize(num) ==
  LET t == TruncDiv(num * maxAmplitude, FLOAT_DEN)
  IN  IF INT16_MIN <= t /\ t <= INT16_MAX
      THEN {t}
      ELSE {Wrap16(t), 0, INT16_MIN, INT16_MAX}

addSampleFront(num) ==
  /\ pc \in {"idle", "returned", "thrown"}
  /\ \E v \in Quantize(num) : buffer' = <<v>> \o buffer
  /\ lastIn' = Some(num)
  /\ pc' = "idle"
  /\ UNCHANGED <<bufferLead, header, remaining, audioData, streamOpen, streamFailed>>
  /\ UNCHANGED <<oscVars, envVars, mainVars, histVars>>

\* void addSample(float sample)
addSample(num) ==
  /\ pc \in {"idle", "returned", "thrown"}
  /\ \E v \in Quantize(num) : buffer' = Append(buffer, v)
  /\ lastIn' = Some(num)
  /\ pc' = "idle"
  /\ UNCHANGED <<bufferLead, header, remaining, audioData, streamOpen, streamFailed>>
  /\ UNCHANGED <<oscVars, envVars, mainVars, histVars>>

(* ------------------------------- header -------------------------------- *)

LE16(n) == <<n % BYTE, n \div BYTE>>

LE32(w) == LE16(w.lo) \o LE16(w.hi)

\* A Header all of whose 44 bytes are b.
Filled(b) ==
  LET tag == <<b, b, b, b>>
      half == b * BYTE + b
      word == [hi |-> half, lo |-> half]
  IN  [riffHeader |-> tag, chunkSize |-> word, waveHeader |-> tag,
       fmtHeader |-> tag, subchunk1Size |-> word, audioFormat |-> half,
       numChannels |-> half, sampleRate |-> word, byteRate |-> word,
       blockAlign |-> half, bitsPerSample |-> half,
       dataHeader |-> tag, dataSize |-> word]

\* A Header whose bytes happen to spell a mono 16-bit PCM format.
Stale ==
  [riffHeader |-> <<82, 73, 70, 70>>, chunkSize |-> W(0),
   waveHeader |-> <<87, 65, 86, 69>>, fmtHeader |-> <<102, 109, 116, 32>>,
   subchunk1Size |-> W(16), audioFormat |-> 1, numChannels |-> 1,
   sampleRate |-> W(44100), byteRate |-> W(88200), blockAlign |-> 2,
   bitsPerSample |-> 16, dataHeader |-> <<100, 97, 116, 97>>,
   dataSize |-> W(0)]

\* wav::Header header;  -- default-initialised: no member has an initialiser, so
\* every field holds an indeterminate value until it is assigned.
Indeterminate == {Filled(0), Filled(BYTE - 1), Stale}

\* buffer.size()
BufferSize == WAdd(bufferLead, W(Len(buffer)))

DataSizeOf(size) == U32(WMul(size, BYTES_PER_SAMPLE))

ChunkSizeNoAdjust(dataSize) == U32Add(W(HEADER_SIZE), dataSize)

\* wav::HEADER_SIZE + header.dataSize - 8, in uint32_t arithmetic
ChunkSizeOf(dataSize) == U32Sub(U32Add(W(HEADER_SIZE), dataSize), W(RIFF_ADJUST))

\* header.dataSize = ...; header.chunkSize = ...; nothing else is assigned.
MakeHeader(size, g) ==
  [g EXCEPT !.dataSize = DataSizeOf(size),
            !.chunkSize = ChunkSizeOf(DataSizeOf(size))]

\* reinterpret_cast<const char*>(&header), sizeof(header): the packed layout.
HeaderBytes(h) ==
  h.riffHeader \o LE32(h.chunkSize) \o h.waveHeader \o h.fmtHeader
    \o LE32(h.subchunk1Size) \o LE16(h.audioFormat) \o LE16(h.numChannels)
    \o LE32(h.sampleRate) \o LE32(h.byteRate) \o LE16(h.blockAlign)
    \o LE16(h.bitsPerSample) \o h.dataHeader \o LE32(h.dataSize)

(* ----------------------------- sample bytes ---------------------------- *)

\* The k-th byte (from 0) of the explicit samples buf, two bytes a sample.
SampleByte(buf, k) ==
  LET u == buf[(k \div BYTES_PER_SAMPLE) + 1] % LIMB
  IN  IF k % BYTES_PER_SAMPLE = 0 THEN u % BYTE ELSE u \div BYTE

\* reinterpret_cast<const char*>(buffer.data())[k]
AudioByte(k) ==
  LET leadBytes == WMul(bufferLead, BYTES_PER_SAMPLE)
  IN  IF WLess(W(k), leadBytes) THEN 0 ELSE SampleByte(buffer, k - WVal(leadBytes))

ChunkAtStart(pos, writeSize) == [i \in 1..writeSize |-> AudioByte(i - 1)]

\* The writeSize bytes at audioData.
ChunkAt(pos, writeSize) == [i \in 1..writeSize |-> AudioByte(pos + i - 1)]

\* std::min(remaining, CHUNK_SIZE)
WriteSizeOf(rem) == IF WLess(W(CHUNK_SIZE), rem) THEN CHUNK_SIZE ELSE WVal(rem)

(* ----------------------------- writeToFile ----------------------------- *)

OpenError == "Could not open file: audio.wav"

Summary(ok, bytes) ==
  Some([lead |-> bufferLead, buffer |-> buffer, ok |-> ok, file |-> bytes])

\* std::ofstream file(filename, std::ios::binary); if (!file) throw ...
OpenFile(ok) ==
  /\ pc \in {"idle", "returned", "thrown"}
  /\ calls' = calls + 1
  /\ writes' = <<>>
  /\ header' = None
  /\ remaining' = W(0)
  /\ audioData' = 0
  /\ IF ok
     THEN /\ pc' = "opened"
          /\ streamOpen' = TRUE
          /\ streamFailed' = FALSE
          /\ opens' = 1
          /\ file' = <<>>
          /\ UNCHANGED <<last, prev>>
     ELSE /\ pc' = "thrown"
          /\ streamOpen' = FALSE
          /\ streamFailed' = TRUE
          /\ opens' = 0
          /\ file' = file
          /\ last' = Summary(FALSE, file)
          /\ prev' = last
  /\ UNCHANGED <<oscVars, bufVars, mainVars>>

\* wav::Header header; the two size fields; file.write(&header, sizeof(header));
\* audioData = buffer.data(); remaining = header.dataSize.
WriteHeader(ok) ==
  /\ pc = "opened"
  /\ \E g \in Indeterminate :
       LET h == MakeHeader(BufferSize, g)
       IN  /\ header' = Some(h)
           /\ remaining' = h.dataSize
           /\ file' = IF ok THEN file \o HeaderBytes(h) ELSE file
  /\ writes' = Append(writes, HEADER_SIZE)
  /\ streamFailed' = ~ok
  /\ audioData' = 0
  /\ pc' = "loop"
  /\ UNCHANGED <<streamOpen, opens>>
  /\ UNCHANGED <<oscVars, bufVars, mainVars, histVars>>

\* One iteration of while (remaining > 0): a write on a failed stream does nothing.
WriteChunk(ok) ==
  /\ pc = "loop"
  /\ remaining # W(0)
  /\ ok => ~streamFailed
  /\ LET writeSize == WriteSizeOf(remaining)
     IN  /\ file' = IF ok THEN file \o ChunkAt(audioData, writeSize) ELSE file
         /\ writes' = Append(writes, writeSize)
         /\ audioData' = audioData + writeSize
         /\ remaining' = U32Sub(remaining, W(writeSize))
  /\ streamFailed' = ~ok
  /\ UNCHANGED <<pc, header, streamOpen, opens>>
  /\ UNCHANGED <<oscVars, bufVars, mainVars, histVars>>

CloseFileLeaveOpen(ok) ==
  /\ pc = "loop"
  /\ remaining = W(0)
  /\ streamOpen' = streamOpen
  /\ streamFailed' = (streamFailed \/ ~ok)
  /\ pc' = "returned"
  /\ last' = Summary(~streamFailed /\ ok, file)
  /\ prev' = last
  /\ UNCHANGED <<header, remaining, audioData, file, writes, opens, calls>>
  /\ UNCHANGED <<oscVars, bufVars, mainVars>>

\* file.close(); and the return: a failed close only sets the stream's failbit.
CloseFile(ok) ==
  /\ pc = "loop"
  /\ remaining = W(0)
  /\ streamOpen' = FALSE
  /\ streamFailed' = (streamFailed \/ ~ok)
  /\ pc' = "returned"
  /\ last' = Summary(~streamFailed /\ ok, file)
  /\ prev' = last
  /\ UNCHANGED <<header, remaining, audioData, file, writes, opens, calls>>
  /\ UNCHANGED <<oscVars, bufVars, mainVars>>

(* -------------------------------- main --------------------------------- *)

\* writer.writeToFile("audio.wav"); return 0;
MainReturn ==
  /\ pc = "returned"
  /\ pc' = "exited"
  /\ exitCode' = Some(0)
  /\ UNCHANGED stderr
  /\ UNCHANGED <<header, remaining, audioData, streamOpen, streamFailed>>
  /\ UNCHANGED <<oscVars, bufVars, envVars, histVars>>

MainCatchExitZero ==
  /\ pc = "thrown"
  /\ pc' = "exited"
  /\ stderr' = Append(stderr, "Error: " \o OpenError)
  /\ exitCode' = Some(0)
  /\ UNCHANGED <<header, remaining, audioData, streamOpen, streamFailed>>
  /\ UNCHANGED <<oscVars, bufVars, envVars, histVars>>

\* catch (const std::exception& e): print and return 1.
MainCatch ==
  /\ pc = "thrown"
  /\ pc' = "exited"
  /\ stderr' = Append(stderr, "Error: " \o OpenError)
  /\ exitCode' = Some(1)
  /\ UNCHANGED <<header, remaining, audioData, streamOpen, streamFailed>>
  /\ UNCHANGED <<oscVars, bufVars, envVars, histVars>>

(* --------------------------- initial states ---------------------------- *)

MainFrequency == 440
MainAmplitude == FLOAT_DEN \div 2

InitWriter ==
  /\ bufferLead = W(0)
  /\ buffer = <<>>
  /\ lastIn = None
  /\ pc = "idle"
  /\ header = None
  /\ remaining = W(0)
  /\ audioData = 0
  /\ streamOpen = FALSE
  /\ streamFailed = FALSE
  /\ file = <<>>
  /\ writes = <<>>
  /\ opens = 0
  /\ exitCode = None
  /\ stderr = <<>>
  /\ calls = 0
  /\ last = None
  /\ prev = None

InitOscillator(freq, amp) ==
  /\ frequency = freq
  /\ amplitude = amp
  /\ angle = 0
  /\ angleStep = AngleStepOf(freq)
  /\ sample = None

(* ----------------------- oscillator specification ---------------------- *)

Frequencies == {1, 440, 4410, 22049, 30000}

InitOsc ==
  /\ \E f \in Frequencies : InitOscillator(f, MainAmplitude)
  /\ InitWriter

NextOsc == process

SpecOsc == InitOsc /\ [][NextOsc]_vars

(* ---------------------- quantisation specification --------------------- *)

QuantSamples ==
  {-8192, -4097, -4096, -4095, -2049, -2048, -2047, -1, 0,
   1, 2047, 2048, 2049, 4095, 4096, 4097, 8192}

InitQuant ==
  /\ InitOscillator(MainFrequency, MainAmplitude)
  /\ InitWriter

NextQuant == \E s \in QuantSamples : Len(buffer) < MaxQuantLen /\ addSample(s)

SpecQuant == InitQuant /\ [][NextQuant]_vars

(* -------------------------- main specification ------------------------ *)

Samples == {-4096, 2048}

Init ==
  /\ InitOscillator(MainFrequency, MainAmplitude)
  /\ InitWriter

Next ==
  \/ \E s \in Samples : Len(buffer) < MaxSamples /\ addSample(s)
  \/ \E ok \in BOOLEAN : calls < MaxCalls /\ OpenFile(ok)
  \/ \E ok \in BOOLEAN : WriteHeader(ok)
  \/ \E ok \in BOOLEAN : WriteChunk(ok)
  \/ \E ok \in BOOLEAN : CloseFile(ok)
  \/ MainReturn
  \/ MainCatch

Spec == Init /\ [][Next]_vars

(* ------------------------- header specification ----------------------- *)

\* Buffer lengths from 0 up, and around 2^31 where the size fields wrap.
HeaderLeads ==
  {W(n) : n \in 0..HeaderSpan}
    \cup {WAdd(W(2147483647 - HeaderSpan), W(d)) : d \in 0..(2 * HeaderSpan)}

InitHeader ==
  /\ InitOscillator(MainFrequency, MainAmplitude)
  /\ \E lead \in HeaderLeads :
       /\ bufferLead = lead
       /\ buffer = <<>>
       /\ lastIn = IF lead = W(0) THEN None ELSE Some(0)
  /\ pc = "idle" /\ header = None /\ remaining = W(0) /\ audioData = 0
  /\ streamOpen = FALSE /\ streamFailed = FALSE
  /\ file = <<>> /\ writes = <<>> /\ opens = 0
  /\ exitCode = None /\ stderr = <<>>
  /\ calls = 0 /\ last = None /\ prev = None

NextHeader ==
  \/ \E ok \in BOOLEAN : calls < MaxCalls /\ OpenFile(ok)
  \/ \E ok \in BOOLEAN : WriteHeader(ok)

SpecHeader == InitHeader /\ [][NextHeader]_vars

(* ---------------------- long-buffer specification ---------------------- *)

PatternNum(i) == ((i * 1237) % (2 * FLOAT_DEN + 1)) - FLOAT_DEN

\* The buffer after addSample(PatternNum(1)), ..., addSample(PatternNum(n)).
Pattern(n) == [i \in 1..n |-> CHOOSE v \in Quantize(PatternNum(i)) : TRUE]

TwoTo31 == [hi |-> LIMB \div 2, lo |-> 0]

\* Pairs of bufferLead and the number of explicit samples: byte sizes around
\* one and two chunks, a buffer that starts with a zero sample, and a buffer of
\* 2^31 + CHUNK_SIZE / 2 + 1 samples, whose byte size needs more than 32 bits.
LongInputs ==
  {<<W(0), CHUNK_SIZE \div 2 - 1>>, <<W(0), CHUNK_SIZE \div 2>>,
   <<W(0), CHUNK_SIZE \div 2 + 1>>, <<W(0), CHUNK_SIZE>>,
   <<W(0), CHUNK_SIZE + 1>>, <<W(1), CHUNK_SIZE \div 2>>,
   <<TwoTo31, CHUNK_SIZE \div 2 + 1>>}

InitLong ==
  /\ InitOscillator(MainFrequency, MainAmplitude)
  /\ \E in \in LongInputs :
       /\ bufferLead = in[1]
       /\ buffer = Pattern(in[2])
       /\ lastIn = Some(PatternNum(in[2]))
  /\ pc = "idle" /\ header = None /\ remaining = W(0) /\ audioData = 0
  /\ streamOpen = FALSE /\ streamFailed = FALSE
  /\ file = <<>> /\ writes = <<>> /\ opens = 0
  /\ exitCode = None /\ stderr = <<>>
  /\ calls = 0 /\ last = None /\ prev = None

NextLong ==
  \/ \E ok \in BOOLEAN : calls < MaxLongCalls /\ OpenFile(ok)
  \/ \E ok \in BOOLEAN : WriteHeader(ok)
  \/ \E ok \in BOOLEAN : WriteChunk(ok)
  \/ \E ok \in BOOLEAN : CloseFile(ok)
  \/ MainReturn
  \/ MainCatch

SpecLong == InitLong /\ [][NextLong]_vars

\* C7: for every frequency f with 0 < f < sampleRate/2 the phase angle is 0
\* at the start and lies in [0, 2*pi) after every call of process().
PhaseInRange ==
  (0 < frequency /\ 2 * frequency < SAMPLE_RATE) =>
    /\ 0 <= angle /\ angle < TWO_PI
    /\ (sample = None => angle = 0)

PhaseWrapped ==
  /\ 0 < frequency /\ 2 * frequency < SAMPLE_RATE
  /\ sample # None
  /\ angle < The(sample).phase


(* ------------------------------- claims -------------------------------- *)

Succeeded == pc = "returned" /\ ~streamFailed

\* C1: the 44-byte header that writeToFile writes carries "RIFF" at offset 0,
\* "WAVE" at 8, "fmt " at 12, sub-chunk size 16, audio format 1, one channel,
\* sample rate 44100, byte rate 88200, block align 2, 16 bits per sample and
\* "data" at offset 36, for every buffer length.
HeaderFormatFields ==
  Len(file) >= HEADER_SIZE =>
    /\ SubSeq(file, 1, 4) = <<82, 73, 70, 70>>
    /\ SubSeq(file, 9, 12) = <<87, 65, 86, 69>>
    /\ SubSeq(file, 13, 16) = <<102, 109, 116, 32>>
    /\ SubSeq(file, 17, 20) = LE32(W(FMT_CHUNK_SIZE))
    /\ SubSeq(file, 21, 22) = LE16(AUDIO_FORMAT)
    /\ SubSeq(file, 23, 24) = LE16(NUM_CHANNELS)
    /\ SubSeq(file, 25, 28) = LE32(W(SAMPLE_RATE))
    /\ SubSeq(file, 29, 32) = LE32(W(SAMPLE_RATE * NUM_CHANNELS * (BIT_DEPTH \div 8)))
    /\ SubSeq(file, 33, 34) = LE16(NUM_CHANNELS * (BIT_DEPTH \div 8))
    /\ SubSeq(file, 35, 36) = LE16(BIT_DEPTH)
    /\ SubSeq(file, 37, 40) = <<100, 97, 116, 97>>

\* 2L and 36 + 2L, without any reduction to 32 bits.
TwiceSize == WMul(BufferSize, BYTES_PER_SAMPLE)

TwiceSizePlus36 == WAdd(TwiceSize, W(HEADER_SIZE - RIFF_ADJUST))

\* The largest L with 36 + 2L below 2^32: 2^31 - 19.
MaxExactSize == [hi |-> LIMB \div 2 - 1, lo |-> LIMB - 19]

\* C2 as stated: for any buffer length L at the call, dataSize = 2L and
\* chunkSize = 36 + 2L.
HeaderSizesExact ==
  header # None =>
    /\ The(header).dataSize = TwiceSize
    /\ The(header).chunkSize = TwiceSizePlus36

\* C2 as amended: both fields are 32-bit values, equal to 2L and 36 + 2L
\* reduced modulo 2^32, hence to 2L and 36 + 2L themselves for every
\* L <= 2^31 - 19.
HeaderSizesModular ==
  header # None =>
    /\ The(header).dataSize.hi < LIMB /\ The(header).chunkSize.hi < LIMB
    /\ The(header).dataSize = U32(TwiceSize)
    /\ The(header).chunkSize = U32(TwiceSizePlus36)
    /\ ~WLess(MaxExactSize, BufferSize) =>
         /\ The(header).dataSize = TwiceSize
         /\ The(header).chunkSize = TwiceSizePlus36

HeaderSizesAtLimit == header # None /\ BufferSize = MaxExactSize

\* The i-th sample of the whole buffer, from 1.
SampleAt(i) ==
  IF i <= WVal(bufferLead) THEN 0 ELSE buffer[i - WVal(bufferLead)]

\* The file is the header followed by the bytes of every sample, in order.
FileIsHeaderThenBuffer ==
  /\ W(Len(file)) = WAdd(TwiceSize, W(HEADER_SIZE))
  /\ SubSeq(file, 1, HEADER_SIZE) = HeaderBytes(The(header))
  /\ \A i \in 1..((Len(file) - HEADER_SIZE) \div 2) :
       file[HEADER_SIZE + 2 * i - 1] + BYTE * file[HEADER_SIZE + 2 * i]
         = SampleAt(i) % LIMB

\* Every write of the loop is of 1 to CHUNK_SIZE bytes, the writes so far cover
\* the bytes before audioData, and there are no more of them than chunks.
ChunksBounded ==
  pc \in {"loop", "returned"} =>
    /\ writes[1] = HEADER_SIZE
    /\ \A j \in 2..Len(writes) : 1 <= writes[j] /\ writes[j] <= CHUNK_SIZE
    /\ WAdd(W(audioData), remaining) = The(header).dataSize
    /\ (Len(writes) - 1) * CHUNK_SIZE < audioData + CHUNK_SIZE
    /\ (pc = "returned" => remaining = W(0))

OpenFailure ==
  /\ pc = "thrown" =>
       /\ writes = <<>> /\ opens = 0 /\ ~streamOpen /\ header = None
       /\ file = (IF prev = None THEN <<>> ELSE The(prev).file)
  /\ exitCode = Some(1) =>
       /\ stderr = <<"Error: Could not open file: audio.wav">>
       /\ writes = <<>> /\ opens = 0
  /\ (pc = "exited" /\ opens = 0) => exitCode = Some(1)
  /\ (pc = "exited" /\ ~streamFailed) => (exitCode = Some(0) /\ stderr = <<>>)

OpenFailureExit == pc = "exited" /\ exitCode = Some(1) /\ calls = 1

\* C5: if a write of the header or of a chunk fails, writeToFile does not
\* return normally and the process exits with a non-zero code after printing
\* the diagnostic.
WriteFailureSurfaces ==
  /\ pc = "returned" => ~streamFailed
  /\ (pc = "exited" /\ streamFailed) => (exitCode # Some(0) /\ stderr # <<>>)

\* C6: two writeToFile calls on the same sample sequence, neither of which
\* failed, leave byte-identical files.
DeterministicOutput ==
  (/\ last # None /\ prev # None
   /\ The(last).ok /\ The(prev).ok
   /\ The(last).lead = The(prev).lead
   /\ The(last).buffer = The(prev).buffer)
    => The(last).file = The(prev).file

\* C8: addSample stores trunc-toward-zero(sample * 32767): for an input in
\* [-1.0, 1.0] the stored value lies in [-32767, 32767], 1.0 gives 32767,
\* -1.0 gives -32767 and 0.0 gives 0.
Abs(x) == IF x < 0 THEN -x ELSE x

QuantizeTruncates ==
  (lastIn # None /\ Abs(The(lastIn)) <= FLOAT_DEN) =>
    LET num == The(lastIn)
        v == buffer[Len(buffer)]
    IN  /\ -32767 <= v /\ v <= 32767
        /\ Abs(v) * FLOAT_DEN <= Abs(num) * 32767
        /\ Abs(num) * 32767 < (Abs(v) + 1) * FLOAT_DEN
        /\ (num >= 0 => v >= 0) /\ (num <= 0 => v <= 0)
        /\ (num = FLOAT_DEN => v = 32767)
        /\ (num = -FLOAT_DEN => v = -32767)
        /\ (num = 0 => v = 0)

QuantizeMinusOne ==
  /\ Len(buffer) = 2
  /\ lastIn = Some(-FLOAT_DEN)
  /\ buffer[2] = -32767
  /\ buffer[1] = -16383

\* C9: whenever writeToFile has returned or thrown, the stream it opened is
\* closed, and a call opens at most one.
HandleClosed ==
  /\ pc \in {"idle", "returned", "thrown", "exited"} => ~streamOpen
  /\ opens <= 1
  /\ streamOpen => opens = 1

HandleClosedAfterFailure == pc = "returned" /\ streamFailed /\ opens = 1

\* C10: the buffer is append-only: addSample adds one element at the end and
\* keeps the earlier ones, writeToFile leaves the buffer unchanged, addSample
\* is accepted after a writeToFile, and a later writeToFile that succeeds
\* emits every sample added so far in insertion order.
BufferStep ==
  /\ bufferLead' = bufferLead
  /\ \/ buffer' = buffer
     \/ /\ pc \in {"idle", "returned", "thrown"}
        /\ calls' = calls
        /\ Len(buffer') = Len(buffer) + 1
        /\ SubSeq(buffer', 1, Len(buffer)) = buffer

====
